---- MODULE Spec2Model ----
(***************************************************************************)
(* The emergency-request pipeline of Backend/app/services/third_workflow.py *)
(* as a state machine.  A run threads one EmergencyRequestState through the *)
(* nodes fetch_disaster, fetch_resources, generate_task, save_task and      *)
(* save_request.  Runs share the document store (the tasks collection and   *)
(* the user_request collection) and nothing else.  A node that makes one    *)
(* external call is one action; save_task_to_db and save_user_request make  *)
(* several store calls, and another run can act between two of them, so     *)
(* each of their store calls is one action.                                 *)
(***************************************************************************)
EXTENDS FiniteSets, Integers, Sequences, TLC

\* ------------------------------------------------------------------ bounds

\* Number of pipeline runs (calls of process_emergency_request).
NumRuns == 2
\* Longest help text, in words.
MaxWords == 3
\* Longest resource listing the store returns in the ranking specification.
MaxDocs == 6

\* ------------------------------------------------------- program constants

\* nearby_resources[:5]
TopK == 5

Runs == 1..NumRuns

UserIds == {"u1", "u2"}

DisasterIds == {"d1", "d2"}

\* The empty dict {} (generated_task and user_request_data of the initial state).
EmptyDict == <<>>

\* dict.get(key, default)
Get(dict, key, default) == IF key \in DOMAIN dict THEN dict[key] ELSE default

\* {**dict, **extra}
Merge(dict, extra) ==
    [k \in DOMAIN dict \cup DOMAIN extra |->
        IF k \in DOMAIN extra THEN extra[k] ELSE dict[k]]

\* ------------------------------------------------------------ field values

\* A coordinate as a document or a request holds it: None, a number, or a
\* string (the decimal text of a number, or text float() cannot parse).
None == [kind |-> "none", num |-> 0]
Number(n) == [kind |-> "float", num |-> n]
NumStr(n) == [kind |-> "str", num |-> n]
BadStr == [kind |-> "badstr", num |-> 0]

\* Python truthiness: None and 0.0 are falsy, a non-empty string is truthy.
Truthy(v) ==
    CASE v.kind = "none" -> FALSE
      [] v.kind = "float" -> v.num /= 0
      [] OTHER -> TRUE

\* float(v) raises for text that is no number.
FloatRaises(v) == v.kind \notin {"float", "str"}

\* float(v)
Float(v) == v.num

\* ---------------------------------------------------------- fetch_disaster

\* What get_disaster_document can do: raise (network error, document not
\* found), or return the document, with or without an emergency_type.
DisasterResults ==
    { [ok |-> FALSE, document |-> EmptyDict],
      [ok |-> TRUE, document |-> [emergency_type |-> "flood"]],
      [ok |-> TRUE, document |-> EmptyDict] }

\* A node's outcome: the state it returns, or an exception raised.
Returned(st) == [raised |-> FALSE, state |-> st]
Raised(st) == [raised |-> TRUE, state |-> st]

\* fetch_disaster_type swallowing the error and going on with the default.
fetch_disaster_type_Swallow(st, got) ==
    Returned(Merge(st, [emergency_type |->
        Get(got.document, "emergency_type", "general emergency")]))

fetch_disaster_type(st, got) ==
    IF got.ok
    THEN Returned(Merge(st, [emergency_type |->
             Get(got.document, "emergency_type", "general emergency")]))
    ELSE Raised(st)

\* --------------------------------------------------------- fetch_resources

\* (user_lat - resource_lat) ** 2 + (user_lon - resource_lon) ** 2: the
\* square of the distance math.sqrt returns.  sqrt is increasing, so two
\* distances compare as their squares do.
Distance(user_lat, user_lon, resource_lat, resource_lon) ==
    (user_lat - resource_lat) * (user_lat - resource_lat)
        + (user_lon - resource_lon) * (user_lon - resource_lon)

\* doc.get("latitude") and doc.get("longitude")
HasCoordinates(doc) ==
    Truthy(Get(doc, "latitude", None)) /\ Truthy(Get(doc, "longitude", None))

\* The loop body's resource_data for one document.
ResourceData(st, doc) ==
    Merge(doc, [distance |-> Distance(Float(st.latitude), Float(st.longitude),
                                      Float(doc.latitude), Float(doc.longitude)),
                resource_id |-> doc.id])

\* Whether the try block raises: the listing call, float() of the request's
\* coordinates, or float() of a collected document's coordinates.
ResourcesRaise(st, listing) ==
    \/ ~listing.ok
    \/ FloatRaises(st.latitude)
    \/ FloatRaises(st.longitude)
    \/ \E i \in 1..Len(listing.documents) :
          /\ HasCoordinates(listing.documents[i])
          /\ \/ FloatRaises(listing.documents[i].latitude)
             \/ FloatRaises(listing.documents[i].longitude)

RECURSIVE Collect(_, _)
\* The for loop: resource_data of each document with both coordinates, in order.
Collect(st, documents) ==
    IF documents = <<>> THEN <<>>
    ELSE LET rest == Collect(st, Tail(documents)) IN
         IF HasCoordinates(Head(documents))
         THEN <<ResourceData(st, Head(documents))>> \o rest
         ELSE rest

\* x.get("distance", float("inf")) <= y.get("distance", float("inf"))
DistanceLeq(x, y) ==
    \/ "distance" \notin DOMAIN y
    \/ "distance" \in DOMAIN x /\ x.distance <= y.distance

RECURSIVE Insert(_, _)
\* x put into the sorted list after every entry that is not farther (stable).
Insert(x, sorted) ==
    IF sorted = <<>> THEN <<x>>
    ELSE IF DistanceLeq(Head(sorted), x)
         THEN <<Head(sorted)>> \o Insert(x, Tail(sorted))
         ELSE <<x>> \o sorted

RECURSIVE Sort(_)
\* list.sort(key=distance): stable, ascending.
Sort(list) ==
    IF list = <<>> THEN <<>>
    ELSE Insert(list[Len(list)], Sort(SubSeq(list, 1, Len(list) - 1)))

\* Take without the truncation.
Take_All(list, n) == list

\* list[:n]
Take(list, n) == SubSeq(list, 1, IF Len(list) < n THEN Len(list) ELSE n)

\* fetch_nearby_resources without the except branch.
fetch_nearby_resources_Raise(st, listing) ==
    IF ResourcesRaise(st, listing)
    THEN Raised(st)
    ELSE Returned(Merge(st, [nearby_resources |->
             Take(Sort(Collect(st, listing.documents)), TopK)]))

fetch_nearby_resources(st, listing) ==
    IF ResourcesRaise(st, listing)
    THEN Returned(Merge(st, [nearby_resources |-> <<>>]))
    ELSE Returned(Merge(st, [nearby_resources |->
             Take(Sort(Collect(st, listing.documents)), TopK)]))

\* ----------------------------------------------------------- generate_task

\* A help text is a sequence of words, a keyword a sequence of words too
\* ("many people"); str.lower() works word by word.
Lower(word) ==
    CASE word = "Food" -> "food"
      [] word = "KISS" -> "kiss"
      [] OTHER -> word

\* text.lower()
LowerText(text) == [i \in DOMAIN text |-> Lower(text[i])]

\* keyword in text
Contains(text, keyword) ==
    \E i \in 1..(Len(text) - Len(keyword) + 1) :
        SubSeq(text, i, i + Len(keyword) - 1) = keyword

\* any(keyword in text for keyword in keywords)
ContainsAny(text, keywords) == \E keyword \in keywords : Contains(text, keyword)

inappropriate_keywords ==
    { <<"sexy">>, <<"kiss">>, <<"love">>, <<"haha">>, <<"lol">>, <<"prank">>,
      <<"joke">>, <<"fake">> }

food_keywords ==
    { <<"food">>, <<"hungry">>, <<"hunger">>, <<"starving">>, <<"eat">>,
      <<"meal">>, <<"water">>, <<"thirsty">>, <<"drink">> }

medical_keywords ==
    { <<"medical">>, <<"injury">>, <<"hurt">>, <<"bleeding">>, <<"unconscious">>,
      <<"rescue">>, <<"trapped">>, <<"fire">>, <<"pain">>, <<"sick">>, <<"ill">> }

mass_keywords ==
    { <<"many", "people">>, <<"multiple", "people">>, <<"crowd">>, <<"group">>,
      <<"families">>, <<"everyone">> }

\* if urgency == "moderate": urgency = "medium"
NormalizeUrgency(urgency) == IF urgency = "moderate" THEN "medium" ELSE urgency

\* str.strip() of the description values the responses below carry.
Strip(text) ==
    CASE text = "  " -> ""
      [] text = " Deliver food supplies " -> "Deliver food supplies"
      [] OTHER -> text

\* The language model's answer is a sequence of pieces: a code fence (three
\* backquotes, or three backquotes and the word json), a JSON object, a JSON
\* value that is no object, or text that is no JSON.
FenceJson == [piece |-> "fence json"]
Fence == [piece |-> "fence"]
Junk == [piece |-> "text"]
JsonList == [piece |-> "list"]
JsonObject(dict) == [piece |-> "object", value |-> dict]

\* content.replace(fence, "")
Without(content, fence) == SelectSeq(content, LAMBDA piece : piece /= fence)

\* The stripping of the code fences before json.loads.
Unfenced(content) ==
    IF content /= <<>> /\ Head(content) = FenceJson
    THEN Without(Without(content, FenceJson), Fence)
    ELSE IF content /= <<>> /\ Head(content) = Fence
         THEN Without(content, Fence)
         ELSE content

\* json.loads raises unless the text is exactly one JSON value; .get and
\* .strip raise unless that value is an object.
ParseRaises(text) == Len(text) /= 1 \/ text[1].piece /= "object"

\* ValidRoles taking whatever single value the answer names.
ValidRoles_Unchecked(ai_selected_role) ==
    IF ai_selected_role = "both" THEN <<"vol", "fr">> ELSE <<ai_selected_role>>

\* The role list chosen from the roles value of the answer.
ValidRoles(ai_selected_role) ==
    IF ai_selected_role = "both" THEN <<"vol", "fr">>
    ELSE IF ai_selected_role \in {"vol", "fr"} THEN <<ai_selected_role>>
    ELSE <<"vol">>

\* The fields both task dicts share.
TaskBase(st, task_id) ==
    [ task_id |-> task_id,
      status |-> "pending",
      action_done_by |-> "",
      emergency_type |-> st.emergency_type,
      urgency_level |-> NormalizeUrgency(st.urgency_type),
      latitude |-> Float(st.latitude),
      longitude |-> Float(st.longitude),
      help_needed |-> st.help,
      user_id |-> st.user_id,
      disaster_id |-> st.disaster_id,
      first_Task |-> FALSE ]

\* The task built from a parsed answer.
AiTask(st, ai_data, task_id) ==
    Merge(TaskBase(st, task_id),
          [ description |-> <<Strip(Get(ai_data, "description", ""))>>,
            roles |-> ValidRoles(Get(ai_data, "roles", "vol")),
            is_fallback |-> FALSE,
            ai_reasoning |-> Get(ai_data, "reasoning", "AI-determined role assignment"),
            resource_utilization |-> Get(ai_data, "resource_utilization", "none") ])

\* AiPathRaises without the test of the description.
AiPathRaises_BlankAccepted(st, response) ==
    \/ ~response.ok
    \/ ParseRaises(Unfenced(response.content))
    \/ FloatRaises(st.latitude)
    \/ FloatRaises(st.longitude)

\* Whether the try block raises: the invocation, the parse, or an empty
\* description.
AiPathRaises(st, response) ==
    \/ ~response.ok
    \/ ParseRaises(Unfenced(response.content))
    \/ Strip(Get(Unfenced(response.content)[1].value, "description", "")) = ""
    \/ FloatRaises(st.latitude)
    \/ FloatRaises(st.longitude)

\* f"({latitude}, {longitude})"
Location(st) == <<"at location", ToString(st.latitude.num), ToString(st.longitude.num)>>

\* FallbackRoles with the food test ahead of the medical and urgency test.
FallbackRoles_FoodFirst(help_lower, urgency) ==
    IF ContainsAny(help_lower, inappropriate_keywords) THEN <<"vol">>
    ELSE LET needs_food == ContainsAny(help_lower, food_keywords)
             needs_medical == ContainsAny(help_lower, medical_keywords)
             mass_casualty == ContainsAny(help_lower, mass_keywords)
         IN  IF mass_casualty /\ (needs_medical \/ urgency = "high")
             THEN <<"vol", "fr">>
             ELSE IF needs_food THEN <<"vol">>
             ELSE IF needs_medical \/ urgency = "high" THEN <<"fr">>
             ELSE <<"vol">>

\* FallbackRoles escalating a mass-casualty text on urgency high only.
FallbackRoles_MassNeedsHigh(help_lower, urgency) ==
    IF ContainsAny(help_lower, inappropriate_keywords) THEN <<"vol">>
    ELSE LET needs_food == ContainsAny(help_lower, food_keywords)
             needs_medical == ContainsAny(help_lower, medical_keywords)
             mass_casualty == ContainsAny(help_lower, mass_keywords)
         IN  IF mass_casualty /\ urgency = "high"
             THEN <<"vol", "fr">>
             ELSE IF needs_medical \/ urgency = "high" THEN <<"fr">>
             ELSE IF needs_food THEN <<"vol">>
             ELSE <<"vol">>

\* The roles of the keyword classifier.
FallbackRoles(help_lower, urgency) ==
    IF ContainsAny(help_lower, inappropriate_keywords) THEN <<"vol">>
    ELSE LET needs_food == ContainsAny(help_lower, food_keywords)
             needs_medical == ContainsAny(help_lower, medical_keywords)
             mass_casualty == ContainsAny(help_lower, mass_keywords)
         IN  IF mass_casualty /\ (needs_medical \/ urgency = "high")
             THEN <<"vol", "fr">>
             ELSE IF needs_medical \/ urgency = "high" THEN <<"fr">>
             ELSE IF needs_food THEN <<"vol">>
             ELSE <<"vol">>

\* The classifier's description with the coordination hint on every branch.
FallbackDescription_HintAlways(st, help_lower, urgency) ==
    LET needs_food == ContainsAny(help_lower, food_keywords)
        needs_medical == ContainsAny(help_lower, medical_keywords)
        mass_casualty == ContainsAny(help_lower, mass_keywords)
        description ==
            IF ContainsAny(help_lower, inappropriate_keywords)
            THEN <<"Verify request details and assess if legitimate emergency assistance is needed.">>
            ELSE IF mass_casualty /\ (needs_medical \/ urgency = "high")
            THEN <<"Coordinate emergency response for multiple people needing">>
                     \o st.help \o Location(st)
            ELSE IF needs_medical \/ urgency = "high"
            THEN <<"Provide immediate medical assistance to person needing">>
                     \o st.help \o Location(st)
            ELSE IF needs_food
            THEN <<"Deliver food and water supplies to person">> \o Location(st)
            ELSE <<"Assist person needing">> \o st.help \o Location(st)
    IN  IF st.nearby_resources /= <<>>
        THEN description \o <<"Coordinate with",
                 Get(st.nearby_resources[1], "name", "nearby resource"),
                 "for assistance.">>
        ELSE description

\* The classifier's description with the hint naming the last ranked resource.
FallbackDescription_HintLast(st, help_lower, urgency) ==
    IF ContainsAny(help_lower, inappropriate_keywords)
    THEN <<"Verify request details and assess if legitimate emergency assistance is needed.">>
    ELSE LET needs_food == ContainsAny(help_lower, food_keywords)
             needs_medical == ContainsAny(help_lower, medical_keywords)
             mass_casualty == ContainsAny(help_lower, mass_keywords)
             description ==
                 IF mass_casualty /\ (needs_medical \/ urgency = "high")
                 THEN <<"Coordinate emergency response for multiple people needing">>
                          \o st.help \o Location(st)
                 ELSE IF needs_medical \/ urgency = "high"
                 THEN <<"Provide immediate medical assistance to person needing">>
                          \o st.help \o Location(st)
                 ELSE IF needs_food
                 THEN <<"Deliver food and water supplies to person">> \o Location(st)
                 ELSE <<"Assist person needing">> \o st.help \o Location(st)
         IN  IF st.nearby_resources /= <<>>
             THEN description \o <<"Coordinate with",
                      Get(st.nearby_resources[Len(st.nearby_resources)], "name",
                          "nearby resource"),
                      "for assistance.">>
             ELSE description

\* The description of the keyword classifier.
FallbackDescription(st, help_lower, urgency) ==
    IF ContainsAny(help_lower, inappropriate_keywords)
    THEN <<"Verify request details and assess if legitimate emergency assistance is needed.">>
    ELSE LET needs_food == ContainsAny(help_lower, food_keywords)
             needs_medical == ContainsAny(help_lower, medical_keywords)
             mass_casualty == ContainsAny(help_lower, mass_keywords)
             description ==
                 IF mass_casualty /\ (needs_medical \/ urgency = "high")
                 THEN <<"Coordinate emergency response for multiple people needing">>
                          \o st.help \o Location(st)
                 ELSE IF needs_medical \/ urgency = "high"
                 THEN <<"Provide immediate medical assistance to person needing">>
                          \o st.help \o Location(st)
                 ELSE IF needs_food
                 THEN <<"Deliver food and water supplies to person">> \o Location(st)
                 ELSE <<"Assist person needing">> \o st.help \o Location(st)
         IN  IF st.nearby_resources /= <<>>
             THEN description \o <<"Coordinate with",
                      Get(st.nearby_resources[1], "name", "nearby resource"),
                      "for assistance.">>
             ELSE description

\* FallbackTask leaving is_fallback as the try block sets it.
FallbackTask_Unmarked(st, task_id) ==
    LET help_lower == LowerText(st.help)
        urgency == NormalizeUrgency(st.urgency_type)
    IN  Merge(TaskBase(st, task_id),
              [ description |-> FallbackDescription(st, help_lower, urgency),
                roles |-> FallbackRoles(help_lower, urgency),
                is_fallback |-> FALSE,
                ai_reasoning |-> "Intelligent fallback assignment based on context analysis" ])

\* The task of the except branch.
FallbackTask(st, task_id) ==
    LET help_lower == LowerText(st.help)
        urgency == NormalizeUrgency(st.urgency_type)
    IN  Merge(TaskBase(st, task_id),
              [ description |-> FallbackDescription(st, help_lower, urgency),
                roles |-> FallbackRoles(help_lower, urgency),
                is_fallback |-> TRUE,
                ai_reasoning |-> "Intelligent fallback assignment based on context analysis" ])

\* The except branch raises when float() of a coordinate does.
FallbackRaises(st) == FloatRaises(st.latitude) \/ FloatRaises(st.longitude)

\* generate_emergency_task without the except branch.
generate_emergency_task_NoFallback(st, response, task_id) ==
    IF ~AiPathRaises(st, response)
    THEN Returned(Merge(st, [generated_task |->
             AiTask(st, Unfenced(response.content)[1].value, task_id)]))
    ELSE Raised(st)

generate_emergency_task(st, response, task_id) ==
    IF ~AiPathRaises(st, response)
    THEN Returned(Merge(st, [generated_task |->
             AiTask(st, Unfenced(response.content)[1].value, task_id)]))
    ELSE IF FallbackRaises(st) THEN Raised(st)
    ELSE Returned(Merge(st, [generated_task |-> FallbackTask(st, task_id)]))

\* --------------------------------------------------------------- the store

\* uuid.uuid4(): run r draws one id, unlike every other id in the store.
Uuid4(r) == r

\* The tasks of one user and disaster, as list_tasks_by_user_and_disaster
\* returns them.
list_tasks_by_user_and_disaster(collection, user_id, disaster_id) ==
    {task \in collection : task.user_id = user_id /\ task.disaster_id = disaster_id}

\* databases.delete_document: the collection without the document of that id.
delete_document(collection, document_id) ==
    {doc \in collection : doc.id /= document_id}

\* Whether a document of that id is in the collection (a delete of a missing
\* document raises).
HasDocument(collection, document_id) == \E doc \in collection : doc.id = document_id

\* save_task_document: the task stored under its task_id.
save_task_document(collection, task) ==
    delete_document(collection, task.task_id) \cup {Merge(task, [id |-> task.task_id])}

\* save_user_request_document: the record stored under document_id.
save_user_request_document(collection, document_id, data) ==
    delete_document(collection, document_id) \cup {Merge(data, [id |-> document_id])}

\* ------------------------------------------------------------ save_task_to_db

\* task.get("$id") or task.get("task_id"); 0 stands for no id.
TaskDocumentId(task) ==
    IF Get(task, "id", 0) /= 0 THEN task.id ELSE Get(task, "task_id", 0)

\* ShouldDelete with the loop deleting nothing.
ShouldDelete_Never(task) == FALSE

\* ShouldDelete without the test of first_Task.
ShouldDelete_AnyTask(task) == TaskDocumentId(task) /= 0

\* if task_id and not task.get("first_Task", False)
ShouldDelete(task) == TaskDocumentId(task) /= 0 /\ ~Get(task, "first_Task", FALSE)

\* ---------------------------------------------------------- save_user_request

\* user_request_data with a task_id that is not the generated task's (0
\* stands for an id no task has).
user_request_data_FreshId(st) ==
    [ disaster_id |-> st.disaster_id,
      help |-> st.help,
      urgency_type |-> st.urgency_type,
      latitude |-> st.latitude,
      longitude |-> st.longitude,
      emergency_type |-> st.emergency_type,
      task_id |-> 0,
      status |-> "submitted",
      feedback |-> None,
      assigned_roles |-> st.generated_task.roles,
      ai_reasoning |-> Get(st.generated_task, "ai_reasoning", "No reasoning provided"),
      userId |-> st.user_id ]

\* The record save_user_request builds.
user_request_data(st) ==
    [ disaster_id |-> st.disaster_id,
      help |-> st.help,
      urgency_type |-> st.urgency_type,
      latitude |-> st.latitude,
      longitude |-> st.longitude,
      emergency_type |-> st.emergency_type,
      task_id |-> st.generated_task.task_id,
      status |-> "submitted",
      feedback |-> None,
      assigned_roles |-> st.generated_task.roles,
      ai_reasoning |-> Get(st.generated_task, "ai_reasoning", "No reasoning provided"),
      userId |-> st.user_id ]

\* RequestDocumentId taking the disaster's id for the user's.
RequestDocumentId_ByDisaster(st) == st.disaster_id

\* The document id save_user_request deletes and writes under.
RequestDocumentId(st) == st.user_id

\* ------------------------------------------------------------------- graph

\* The edges with fetch_disaster wired to generate_task.
Edge_SkipRanking(node) ==
    CASE node = "fetch_disaster" -> "generate_task"
      [] node = "fetch_resources" -> "generate_task"
      [] node = "generate_task" -> "save_task"
      [] node = "save_task" -> "save_request"
      [] node = "save_request" -> "done"

\* add_edge and set_finish_point: the node after each node.
Edge(node) ==
    CASE node = "fetch_disaster" -> "fetch_resources"
      [] node = "fetch_resources" -> "generate_task"
      [] node = "generate_task" -> "save_task"
      [] node = "save_task" -> "save_request"
      [] node = "save_request" -> "done"

\* set_entry_point
EntryPoint == "fetch_disaster"

\* process_emergency_request's initial_state.
initial_state(request) ==
    Merge(request, [ emergency_type |-> "",
                     nearby_resources |-> <<>>,
                     generated_task |-> EmptyDict,
                     user_request_data |-> EmptyDict ])

\* ------------------------------------------------------------------ inputs

\* Documents the tasks collection may hold before the first run: a seed task
\* (first_Task true), a task an earlier run wrote, and a task with no
\* first_Task attribute.
SeedTask == [id |-> 101, task_id |-> 101, user_id |-> "u1", disaster_id |-> "d1",
             first_Task |-> TRUE]
OldTask == [id |-> 102, task_id |-> 102, user_id |-> "u1", disaster_id |-> "d1",
            first_Task |-> FALSE]
LegacyTask == [id |-> 103, task_id |-> 103, user_id |-> "u1", disaster_id |-> "d1"]
OtherSeedTask == [id |-> 104, task_id |-> 104, user_id |-> "u2", disaster_id |-> "d1",
                  first_Task |-> TRUE]

\* The request record the run that wrote OldTask left.
OldRequest == [id |-> "u1", userId |-> "u1", disaster_id |-> "d1", task_id |-> 102]

\* The stores a first run may find.
InitialStores ==
    { [tasks |-> {}, requests |-> {}],
      [tasks |-> {SeedTask, OtherSeedTask}, requests |-> {}],
      [tasks |-> {SeedTask, OldTask}, requests |-> {OldRequest}],
      [tasks |-> {SeedTask, OldTask, LegacyTask}, requests |-> {OldRequest}] }

\* A request as process_emergency_request receives it.
Request(disaster_id, user_id, help, urgency_type, latitude, longitude) ==
    [ disaster_id |-> disaster_id, user_id |-> user_id, help |-> help,
      urgency_type |-> urgency_type, latitude |-> latitude, longitude |-> longitude ]

\* A resource document: its coordinates may be missing or zero.
Resource(id, name, latitude, longitude) ==
    [id |-> id, name |-> name, latitude |-> latitude, longitude |-> longitude]

Shelter == Resource(1, "Shelter", Number(1), Number(1))
Depot == Resource(2, "Depot", Number(2), Number(2))
Unplaced == [id |-> 3, name |-> "Unplaced", longitude |-> Number(1)]
\* Resources whose coordinates are strings: numeric, and text float() cannot parse.
TextPlaced == Resource(4, "TextPlaced", NumStr(0), NumStr(2))
Misplaced == Resource(5, "Misplaced", BadStr, Number(1))

\* A resource document with no name attribute.
Nameless == [id |-> 6, latitude |-> Number(1), longitude |-> Number(0)]

\* A listing the store returns, or the call raising.
Listing(documents) == [ok |-> TRUE, documents |-> documents]
ListingFails == [ok |-> FALSE, documents |-> <<>>]

\* An answer of the language model, or the invocation raising.
Answer(content) == [ok |-> TRUE, content |-> content]
InvokeFails == [ok |-> FALSE, content |-> <<>>]

\* JSON objects the model may answer with.
AnswerObjects ==
    { [description |-> "Deliver food supplies", roles |-> "vol"],
      [description |-> " Deliver food supplies ", roles |-> "fr"],
      [description |-> "Deliver food supplies", roles |-> "both"],
      [description |-> "Deliver food supplies", roles |-> "volunteer",
       reasoning |-> "roles: volunteer"],
      [description |-> "Deliver food supplies"],
      [description |-> "", roles |-> "fr"],
      [description |-> "  ", roles |-> "both"],
      [roles |-> "fr"] }

\* What gemini.invoke may do.
Responses ==
    {InvokeFails, Answer(<<>>), Answer(<<Junk>>), Answer(<<JsonList>>)}
    \cup {Answer(<<JsonObject(o)>>) : o \in AnswerObjects}
    \cup {Answer(<<FenceJson, JsonObject(o), Fence>>) : o \in AnswerObjects}
    \cup {Answer(<<Fence, JsonObject(o), Fence>>) : o \in AnswerObjects}
    \cup {Answer(<<Junk, JsonObject(o)>>) : o \in AnswerObjects}

VARIABLES
    tasks,           \* the tasks collection: a set of task documents
    requests,        \* the user_request collection: a set of request documents
    pc,              \* pc[r]: where run r stands
    state,           \* state[r]: the EmergencyRequestState of run r
    existing_tasks,  \* existing_tasks[r]: listed tasks save_task_to_db has yet to visit
    visited,         \* visited[r]: the nodes run r has entered, in order
    faults           \* faults[r]: the store calls of run r that raised

vars == <<tasks, requests, pc, state, existing_tasks, visited, faults>>

\* ----------------------------------------------------------------- actions

Init ==
    /\ \E store \in InitialStores :
          /\ tasks = store.tasks
          /\ requests = store.requests
    /\ pc = [r \in Runs |-> "idle"]
    /\ state = [r \in Runs |-> EmptyDict]
    /\ existing_tasks = [r \in Runs |-> {}]
    /\ visited = [r \in Runs |-> <<>>]
    /\ faults = [r \in Runs |-> {}]

\* The first store call of each node.
FirstCall(node) ==
    CASE node = "save_task" -> "list_tasks"
      [] node = "save_request" -> "delete_request"
      [] OTHER -> node

\* Run r leaves node with outcome out: to the next node, or out of the graph
\* with the exception.
Leave(r, node, out) ==
    /\ state' = [state EXCEPT ![r] = out.state]
    /\ IF out.raised
       THEN /\ pc' = [pc EXCEPT ![r] = "raised"]
            /\ visited' = visited
       ELSE /\ pc' = [pc EXCEPT ![r] = FirstCall(Edge(node))]
            /\ visited' = [visited EXCEPT ![r] =
                   IF Edge(node) = "done" THEN @ ELSE Append(@, Edge(node))]

\* process_emergency_request is called.
Start(r, request) ==
    /\ pc[r] = "idle"
    /\ state' = [state EXCEPT ![r] = initial_state(request)]
    /\ pc' = [pc EXCEPT ![r] = EntryPoint]
    /\ visited' = [visited EXCEPT ![r] = <<EntryPoint>>]
    /\ UNCHANGED <<tasks, requests, existing_tasks, faults>>

\* The node fetch_disaster, with what get_disaster_document did.
FetchDisaster(r, got) ==
    /\ pc[r] = "fetch_disaster"
    /\ Leave(r, "fetch_disaster", fetch_disaster_type(state[r], got))
    /\ faults' = [faults EXCEPT ![r] = IF got.ok THEN @ ELSE @ \cup {"get_disaster"}]
    /\ UNCHANGED <<tasks, requests, existing_tasks>>

\* The node fetch_resources, with what list_resources_for_disaster did.
FetchResources(r, listing) ==
    /\ pc[r] = "fetch_resources"
    /\ Leave(r, "fetch_resources", fetch_nearby_resources(state[r], listing))
    /\ faults' = [faults EXCEPT ![r] =
           IF ResourcesRaise(state[r], listing) THEN @ \cup {"list_resources"} ELSE @]
    /\ UNCHANGED <<tasks, requests, existing_tasks>>

\* The node generate_task, with what gemini.invoke did.
GenerateTask(r, response) ==
    /\ pc[r] = "generate_task"
    /\ Leave(r, "generate_task", generate_emergency_task(state[r], response, Uuid4(r)))
    /\ faults' = [faults EXCEPT ![r] =
           IF AiPathRaises(state[r], response) THEN @ \cup {"gemini"} ELSE @]
    /\ UNCHANGED <<tasks, requests, existing_tasks>>

\* save_task_to_db: the listing call.  When it raises the loop is skipped.
ListTasks(r) ==
    /\ pc[r] = "list_tasks"
    /\ \/ /\ existing_tasks' = [existing_tasks EXCEPT ![r] =
                 list_tasks_by_user_and_disaster(tasks, state[r].user_id,
                                                 state[r].disaster_id)]
          /\ pc' = [pc EXCEPT ![r] = "delete_tasks"]
          /\ faults' = faults
       \/ /\ existing_tasks' = existing_tasks
          /\ pc' = [pc EXCEPT ![r] = "write_task"]
          /\ faults' = [faults EXCEPT ![r] = @ \cup {"list_tasks"}]
    /\ UNCHANGED <<tasks, requests, state, visited>>

\* The entry of faults for the delete call of one task that raised.
DeleteFault(document_id) == "delete_task " \o ToString(document_id)

\* DeleteTask with a raised delete call ending the loop and the node.
DeleteTask_AbortOnFailure(r) ==
    /\ pc[r] = "delete_tasks"
    /\ existing_tasks[r] /= {}
    /\ \E task \in existing_tasks[r] :
          IF ~ShouldDelete(task)
          THEN /\ existing_tasks' = [existing_tasks EXCEPT ![r] = @ \ {task}]
               /\ UNCHANGED <<tasks, faults, pc, visited>>
          ELSE \/ /\ HasDocument(tasks, TaskDocumentId(task))
                  /\ tasks' = delete_document(tasks, TaskDocumentId(task))
                  /\ existing_tasks' = [existing_tasks EXCEPT ![r] = @ \ {task}]
                  /\ UNCHANGED <<faults, pc, visited>>
               \/ /\ tasks' = tasks
                  /\ faults' = [faults EXCEPT ![r] =
                         @ \cup {"delete_task", DeleteFault(TaskDocumentId(task))}]
                  /\ existing_tasks' = [existing_tasks EXCEPT ![r] = {}]
                  /\ pc' = [pc EXCEPT ![r] = "delete_request"]
                  /\ visited' = [visited EXCEPT ![r] = Append(@, "save_request")]
    /\ UNCHANGED <<requests, state>>

\* save_task_to_db: one turn of the loop over the listed tasks (in any order):
\* the task is kept, or its delete call succeeds, or its delete call raises.
DeleteTask(r) ==
    /\ pc[r] = "delete_tasks"
    /\ existing_tasks[r] /= {}
    /\ \E task \in existing_tasks[r] :
          /\ existing_tasks' = [existing_tasks EXCEPT ![r] = @ \ {task}]
          /\ IF ~ShouldDelete(task)
             THEN UNCHANGED <<tasks, faults>>
             ELSE \/ /\ HasDocument(tasks, TaskDocumentId(task))
                     /\ tasks' = delete_document(tasks, TaskDocumentId(task))
                     /\ faults' = faults
                  \/ /\ tasks' = tasks
                     /\ faults' = [faults EXCEPT ![r] =
                            @ \cup {"delete_task", DeleteFault(TaskDocumentId(task))}]
    /\ UNCHANGED <<requests, pc, state, visited>>

\* save_task_to_db: the loop is over; save_task_document is called, and the
\* node returns the state whether or not the call raised.
WriteTask(r) ==
    /\ pc[r] \in {"delete_tasks", "write_task"}
    /\ existing_tasks[r] = {} \/ pc[r] = "write_task"
    /\ \/ /\ tasks' = save_task_document(tasks, state[r].generated_task)
          /\ faults' = faults
       \/ /\ tasks' = tasks
          /\ faults' = [faults EXCEPT ![r] = @ \cup {"save_task"}]
    /\ existing_tasks' = [existing_tasks EXCEPT ![r] = {}]
    /\ Leave(r, "save_task", Returned(state[r]))
    /\ UNCHANGED requests

\* DeleteRequest with a raised delete call skipping the write: the node
\* returns the state with the record it built.
DeleteRequest_AbortOnFailure(r) ==
    /\ pc[r] = "delete_request"
    /\ \/ /\ HasDocument(requests, RequestDocumentId(state[r]))
          /\ requests' = delete_document(requests, RequestDocumentId(state[r]))
          /\ faults' = faults
          /\ pc' = [pc EXCEPT ![r] = "write_request"]
          /\ state' = state
       \/ /\ requests' = requests
          /\ faults' = [faults EXCEPT ![r] = @ \cup {"delete_request"}]
          /\ pc' = [pc EXCEPT ![r] = "done"]
          /\ state' = [state EXCEPT ![r] =
                 Merge(@, [user_request_data |-> user_request_data(@)])]
    /\ UNCHANGED <<tasks, existing_tasks, visited>>

\* save_user_request: the delete call; a raise is swallowed.
DeleteRequest(r) ==
    /\ pc[r] = "delete_request"
    /\ \/ /\ HasDocument(requests, RequestDocumentId(state[r]))
          /\ requests' = delete_document(requests, RequestDocumentId(state[r]))
          /\ faults' = faults
       \/ /\ requests' = requests
          /\ faults' = [faults EXCEPT ![r] = @ \cup {"delete_request"}]
    /\ pc' = [pc EXCEPT ![r] = "write_request"]
    /\ UNCHANGED <<tasks, state, existing_tasks, visited>>

\* save_user_request: the write call; the node returns the state with the
\* record whether or not the call raised.
WriteRequest(r) ==
    /\ pc[r] = "write_request"
    /\ \/ /\ requests' = save_user_request_document(requests,
                 RequestDocumentId(state[r]), user_request_data(state[r]))
          /\ faults' = faults
       \/ /\ requests' = requests
          /\ faults' = [faults EXCEPT ![r] = @ \cup {"save_request"}]
    /\ Leave(r, "save_request",
             Returned(Merge(state[r], [user_request_data |-> user_request_data(state[r])])))
    /\ UNCHANGED <<tasks, existing_tasks>>

\* ---------------------------------------------------------- specifications

\* Overlapping runs: the requests differ in user and disaster only.
SpecInputs ==
    { Request(d, u, <<"Food">>, "moderate", NumStr(0), NumStr(0)) :
          d \in DisasterIds, u \in UserIds }

SpecDisasterResults ==
    { [ok |-> FALSE, document |-> EmptyDict],
      [ok |-> TRUE, document |-> [emergency_type |-> "flood"]] }

SpecListings == {Listing(<<Depot, Shelter>>)}

SpecResponses ==
    { InvokeFails,
      Answer(<<JsonObject([description |-> "Deliver food supplies", roles |-> "both"])>>) }

Next ==
    \E r \in Runs :
        \/ \E request \in SpecInputs : Start(r, request)
        \/ \E got \in SpecDisasterResults : FetchDisaster(r, got)
        \/ \E listing \in SpecListings : FetchResources(r, listing)
        \/ \E response \in SpecResponses : GenerateTask(r, response)
        \/ ListTasks(r)
        \/ DeleteTask(r)
        \/ WriteTask(r)
        \/ DeleteRequest(r)
        \/ WriteRequest(r)

Spec == Init /\ [][Next]_vars

\* No run other than r is between its call and its return.
Quiet(r) == \A q \in Runs \ {r} : pc[q] \in {"idle", "done", "raised"}

\* No run other than r is ever called.
Alone(r) == \A q \in Runs \ {r} : pc[q] = "idle"

\* Requests of one disaster, by either user.
SeqInputs ==
    {Request("d1", u, <<"Food">>, "moderate", NumStr(0), NumStr(0)) : u \in UserIds}

\* Runs one after the other: a run is called when the one before has returned.
SeqNext ==
    \E r \in Runs :
        \/ Quiet(r) /\ \E request \in SeqInputs : Start(r, request)
        \/ Quiet(r) /\ \E got \in SpecDisasterResults : FetchDisaster(r, got)
        \/ Quiet(r) /\ \E listing \in SpecListings : FetchResources(r, listing)
        \/ Quiet(r) /\ GenerateTask(r, InvokeFails)
        \/ Quiet(r) /\ ListTasks(r)
        \/ Quiet(r) /\ DeleteTask(r)
        \/ Quiet(r) /\ WriteTask(r)
        \/ Quiet(r) /\ DeleteRequest(r)
        \/ Quiet(r) /\ WriteRequest(r)

SeqSpec == Init /\ [][SeqNext]_vars

\* One run, with every external result: requests of several kinds, every
\* disaster result, listings with and without resources, every answer.
PipelineInputs ==
    { Request("d1", "u1", help, urgency, NumStr(0), NumStr(0)) :
          help \in {<<"Food">>, <<"crowd", "bleeding">>, <<"KISS">>},
          urgency \in {"moderate", "high"} }

PipelineListings ==
    { ListingFails, Listing(<<>>), Listing(<<Unplaced>>), Listing(<<Depot, Shelter>>),
      Listing(<<Shelter, Misplaced>>) }

PipelineNext ==
    \E r \in Runs :
        \/ Alone(r) /\ \E request \in PipelineInputs : Start(r, request)
        \/ Alone(r) /\ \E got \in DisasterResults : FetchDisaster(r, got)
        \/ Alone(r) /\ \E listing \in PipelineListings : FetchResources(r, listing)
        \/ Alone(r) /\ \E response \in Responses : GenerateTask(r, response)
        \/ Alone(r) /\ ListTasks(r)
        \/ Alone(r) /\ DeleteTask(r)
        \/ Alone(r) /\ WriteTask(r)
        \/ Alone(r) /\ DeleteRequest(r)
        \/ Alone(r) /\ WriteRequest(r)

PipelineSpec == Init /\ [][PipelineNext]_vars

\* The specifications of one node start from the store of SeedTask and OldTask.
NodeInit == Init /\ tasks = {SeedTask, OldTask}

\* The words of the help texts.
Vocabulary == {"Food", "bleeding", "crowd", "KISS", "prank", "many", "people", "please"}

UrgencyTypes == {"low", "moderate", "medium", "high"}

\* The classifier on every help text of at most MaxWords words and every
\* urgency: the run up to generate_task.
ClassifyNext ==
    \E r \in Runs :
        \/ Alone(r) /\ pc[r] = "idle" /\ \E n \in 0..MaxWords :
              \E help \in [1..n -> Vocabulary] : \E urgency \in UrgencyTypes :
                  Start(r, Request("d1", "u1", help, urgency, NumStr(0), NumStr(0)))
        \/ Alone(r) /\ \E got \in DisasterResults : FetchDisaster(r, got)
        \/ Alone(r) /\ \E listing \in {ListingFails, Listing(<<Depot, Shelter>>),
                                       Listing(<<Depot, Nameless>>)} :
              FetchResources(r, listing)
        \/ Alone(r) /\ \E response \in {InvokeFails, Answer(<<Junk>>)} :
              GenerateTask(r, response)

ClassifySpec == NodeInit /\ [][ClassifyNext]_vars

\* The coordinates a listed resource may carry: numbers, a missing latitude,
\* a latitude of zero.
ResourceShapes ==
    { [latitude |-> Number(1), longitude |-> Number(1)],
      [latitude |-> Number(2), longitude |-> Number(2)],
      [longitude |-> Number(1)],
      [latitude |-> Number(0), longitude |-> Number(1)] }

\* The documents of the given coordinates; the i-th document has id i.
Documents(shapes) ==
    [i \in DOMAIN shapes |-> Merge(shapes[i], [id |-> i, name |-> "Resource"])]

\* Listings that raise, or hold coordinates that are strings.
OddListings ==
    { ListingFails, Listing(<<Misplaced>>), Listing(<<Shelter, Misplaced, Depot>>),
      Listing(<<Depot, TextPlaced, Shelter>>) }

RankInputs ==
    { Request("d1", "u1", <<"Food">>, "moderate", NumStr(0), NumStr(0)),
      Request("d1", "u1", <<"Food">>, "moderate", NumStr(2), NumStr(1)) }

\* The ranking on every listing of at most MaxDocs documents: the run up to
\* fetch_resources.
RankNext ==
    \E r \in Runs :
        \/ Alone(r) /\ \E request \in RankInputs : Start(r, request)
        \/ Alone(r) /\ \E got \in SpecDisasterResults : FetchDisaster(r, got)
        \/ Alone(r) /\ \E listing \in OddListings : FetchResources(r, listing)
        \/ Alone(r) /\ pc[r] = "fetch_resources" /\ \E n \in 0..MaxDocs :
              \E shapes \in [1..n -> ResourceShapes] :
                  FetchResources(r, Listing(Documents(shapes)))

RankSpec == NodeInit /\ [][RankNext]_vars

\* ------------------------------------------------------------------ claims

\* The tasks of a user and disaster whose first_Task is false or absent.
NonFirstTasks(user_id, disaster_id) ==
    {task \in list_tasks_by_user_and_disaster(tasks, user_id, disaster_id) :
        ~Get(task, "first_Task", FALSE)}

\* The request records of a user.
RequestsOf(user_id) == {record \in requests : record.userId = user_id}

\* No run is between its call and its return.
AllQuiet == \A r \in Runs : pc[r] \in {"idle", "done", "raised"}

\* Two runs that have both returned, for the same user and disaster.
RanTwice(r1, r2) ==
    /\ r1 /= r2
    /\ pc[r1] = "done" /\ pc[r2] = "done"
    /\ state[r1].user_id = state[r2].user_id
    /\ state[r1].disaster_id = state[r2].disaster_id

\* The store calls whose failure leaves a stale or a missing document.
PersistCalls == {"list_tasks", "delete_task", "save_task", "save_request"}

\* No such call of a returned run of this user raised.
CleanFor(user_id) ==
    \A r \in Runs :
        pc[r] = "done" /\ state[r].user_id = user_id => faults[r] \cap PersistCalls = {}

C2_NeverRaisesOnceFetched ==
    \A r \in Runs :
        /\ pc[r] = "raised" =>
              "get_disaster" \in faults[r] /\ visited[r] = <<"fetch_disaster">>
        /\ pc[r] \in {"list_tasks", "delete_tasks", "write_task", "delete_request",
                      "write_request", "done"} =>
              /\ state[r].generated_task /= EmptyDict
              /\ state[r].generated_task.description /= <<>>
        /\ pc[r] = "done" =>
              /\ state[r].user_request_data /= EmptyDict
              /\ state[r].user_request_data.task_id = state[r].generated_task.task_id
        /\ pc[r] \notin {"idle", "done", "raised"} /\ Alone(r) => ENABLED PipelineNext

\* A run returned with a task and a record although the resource listing,
\* the model, the task listing and both writes all failed.
C2_Witness ==
    \E r \in Runs :
        /\ pc[r] = "done"
        /\ {"list_resources", "gemini", "list_tasks", "save_task", "delete_request",
            "save_request"} \subseteq faults[r]
        /\ state[r].generated_task.is_fallback
        /\ state[r].user_request_data /= EmptyDict

\* C3: a run whose disaster fetch failed has raised out of fetch_disaster,
\* entered no other node, made no other call, and left the store as it was.
C3_FailedFetchAborts ==
    \A r \in Runs :
        "get_disaster" \in faults[r] =>
            /\ pc[r] = "raised"
            /\ visited[r] = <<"fetch_disaster">>
            /\ faults[r] = {"get_disaster"}
            /\ state[r].generated_task = EmptyDict
            /\ state[r].user_request_data = EmptyDict
            /\ [tasks |-> tasks, requests |-> requests] \in InitialStores

\* A run has raised on a store that holds tasks and a request record.
C3_Witness ==
    \E r \in Runs :
        /\ pc[r] = "raised"
        /\ "get_disaster" \in faults[r]
        /\ OldTask \in tasks
        /\ OldRequest \in requests

\* The elements of a list.
Range(list) == {list[i] : i \in DOMAIN list}

\* C4: the roles of every generated task are a non-empty subset of {vol, fr}.
C4_RolesNonEmptySubset ==
    \A r \in Runs :
        state[r] /= EmptyDict /\ state[r].generated_task /= EmptyDict =>
            /\ state[r].generated_task.roles /= <<>>
            /\ Range(state[r].generated_task.roles) \subseteq {"vol", "fr"}

\* A returned run whose task comes from an answer naming the role "volunteer".
C4_Witness ==
    \E r \in Runs :
        /\ pc[r] = "done"
        /\ ~state[r].generated_task.is_fallback
        /\ state[r].generated_task.ai_reasoning = "roles: volunteer"
        /\ state[r].generated_task.roles = <<"vol">>

\* C5: no step of any run removes a task whose first_Task is true.
C5_FirstTasksNeverDeleted ==
    [][\A task \in tasks : Get(task, "first_Task", FALSE) => task \in tasks']_vars

\* A run of (u1, d1) has returned after deleting the old task of the pair,
\* and the seed task of the pair is still in the store.
C5_Witness ==
    /\ SeedTask \in tasks
    /\ OtherSeedTask \notin tasks
    /\ OldTask \notin tasks
    /\ \E r \in Runs :
          /\ pc[r] = "done"
          /\ state[r].user_id = "u1" /\ state[r].disaster_id = "d1"
          /\ "list_tasks" \notin faults[r]

\* C6: at most one request record per user, each under the user's id.
C6_OneRequestPerUser ==
    /\ \A user_id \in UserIds : Cardinality(RequestsOf(user_id)) <= 1
    /\ \A record \in requests : record.id = record.userId

\* One run has written its record; another run of the same user, past its
\* own delete call, is about to write over it.
C6_Witness ==
    \E r1, r2 \in Runs :
        /\ r1 /= r2
        /\ state[r1] /= EmptyDict /\ state[r2] /= EmptyDict
        /\ state[r1].user_id = state[r2].user_id
        /\ pc[r1] = "done" /\ "save_request" \notin faults[r1]
        /\ pc[r2] = "write_request"
        /\ \E record \in RequestsOf(state[r1].user_id) :
              record.task_id = state[r1].generated_task.task_id

\* The store calls of save_task_to_db.
TaskCalls == {"list_tasks", "delete_task", "save_task"}

\* The returned runs of a user and disaster.
DoneRuns(user_id, disaster_id) ==
    {r \in Runs : /\ pc[r] = "done"
                  /\ state[r].user_id = user_id
                  /\ state[r].disaster_id = disaster_id}

\* C7: once the runs have returned with no failed call of save_task_to_db,
\* the non-first tasks of a pair are tasks its runs wrote, at least one and
\* (see the witness) possibly more than one.
C7_OnlyTasksOfTheRunsRemain ==
    \A user_id \in UserIds, disaster_id \in DisasterIds :
        /\ AllQuiet
        /\ DoneRuns(user_id, disaster_id) /= {}
        /\ \A r \in DoneRuns(user_id, disaster_id) : faults[r] \cap TaskCalls = {}
        => /\ NonFirstTasks(user_id, disaster_id) /= {}
           /\ \A task \in NonFirstTasks(user_id, disaster_id) :
                 \E r \in DoneRuns(user_id, disaster_id) :
                     task.task_id = state[r].generated_task.task_id

\* Two runs of one pair have returned, no call of save_task_to_db failed in
\* either, and the pair has more than one non-first task.
C7_Witness ==
    \E r1, r2 \in Runs :
        /\ RanTwice(r1, r2) /\ AllQuiet
        /\ faults[r1] \cap TaskCalls = {}
        /\ faults[r2] \cap TaskCalls = {}
        /\ Cardinality(NonFirstTasks(state[r1].user_id, state[r1].disaster_id)) > 1

\* A ranked entry holds both coordinates.
Placed(entry) ==
    /\ "latitude" \in DOMAIN entry /\ entry.latitude /= None
    /\ "longitude" \in DOMAIN entry /\ entry.longitude /= None

\* C8: the ranked list is sorted by non-decreasing distance, has at most 5
\* entries, and every entry holds a latitude and a longitude.
C8_RankedSortedTruncatedPlaced ==
    \A r \in Runs :
        pc[r] = "generate_task" =>
            LET ranked == state[r].nearby_resources IN
            /\ Len(ranked) <= 5
            /\ \A i \in 1..(Len(ranked) - 1) : ranked[i].distance <= ranked[i + 1].distance
            /\ \A i \in 1..Len(ranked) : Placed(ranked[i])

\* Five entries ranked out of at least six placed resources, the nearest
\* listed later than the second, the last farther than the first.
C8_Witness ==
    \E r \in Runs :
        /\ pc[r] = "generate_task"
        /\ Len(state[r].nearby_resources) = 5
        /\ \E i \in 1..5 : state[r].nearby_resources[i].resource_id >= 6
        /\ state[r].nearby_resources[1].resource_id > state[r].nearby_resources[2].resource_id
        /\ state[r].nearby_resources[1].distance < state[r].nearby_resources[5].distance

\* C9: a run whose resource listing or ranking raised goes on, with an empty
\* nearby_resources, and no run raises out of fetch_resources.
C9_RankingNeverAborts ==
    \A r \in Runs :
        /\ "list_resources" \in faults[r] =>
              /\ pc[r] /= "raised"
              /\ "generate_task" \in Range(visited[r])
              /\ state[r].nearby_resources = <<>>
        /\ pc[r] = "raised" => "fetch_resources" \notin Range(visited[r])

\* A run whose ranking raised has returned with a task.
C9_Witness ==
    \E r \in Runs :
        /\ pc[r] = "done"
        /\ "list_resources" \in faults[r]
        /\ state[r].nearby_resources = <<>>
        /\ state[r].generated_task /= EmptyDict

\* The roles the priority order of C10 gives.
PriorityRoles(needs_food, needs_medical, mass_casualty, urgency) ==
    CASE mass_casualty /\ (needs_medical \/ urgency = "high") -> {"vol", "fr"}
      [] ~(mass_casualty /\ (needs_medical \/ urgency = "high"))
           /\ (needs_medical \/ urgency = "high") -> {"fr"}
      [] OTHER -> {"vol"}

\* C10: a fallback task for a help text with no inappropriate keyword has the
\* roles of the priority order; a food-only text gets {fr} with urgency high
\* and {vol} with urgency moderate.
C10_FallbackPriorityOrder ==
    \A r \in Runs :
        /\ pc[r] = "list_tasks"
        /\ state[r].generated_task.is_fallback
        /\ ~ContainsAny(LowerText(state[r].help), inappropriate_keywords)
        => LET text == LowerText(state[r].help)
               task == state[r].generated_task
           IN  /\ Range(task.roles) =
                     PriorityRoles(ContainsAny(text, food_keywords),
                                   ContainsAny(text, medical_keywords),
                                   ContainsAny(text, mass_keywords),
                                   task.urgency_level)
               /\ state[r].help = <<"Food">> /\ state[r].urgency_type = "high"
                     => task.roles = <<"fr">>
               /\ state[r].help = <<"Food">> /\ state[r].urgency_type = "moderate"
                     => task.roles = <<"vol">>

\* The fallback task of the food-only request with urgency high.
C10_Witness ==
    \E r \in Runs :
        /\ pc[r] = "list_tasks"
        /\ state[r].generated_task.is_fallback
        /\ state[r].help = <<"Food">>
        /\ state[r].urgency_type = "high"
        /\ state[r].generated_task.roles = <<"fr">>

\* The description of the verification task.
VerificationDescription ==
    <<"Verify request details and assess if legitimate emergency assistance is needed.">>

\* The help text holds one of the words, in any case the vocabulary spells it.
Mentions(help, words) == \E i \in DOMAIN help : help[i] \in words

\* C11: a fallback task for a help text with an inappropriate keyword has the
\* roles [vol] and the verification description and nothing more, whatever
\* the urgency, the other keywords of the text and the ranked resources.
C11_InappropriateOverrides ==
    \A r \in Runs :
        /\ pc[r] = "list_tasks"
        /\ state[r].generated_task.is_fallback
        /\ Mentions(state[r].help, {"KISS", "prank"})
        => /\ state[r].generated_task.roles = <<"vol">>
           /\ state[r].generated_task.description = VerificationDescription

\* The fallback task of a text with an inappropriate and a medical keyword,
\* urgency high, and ranked resources at hand.
C11_Witness ==
    \E r \in Runs :
        /\ pc[r] = "list_tasks"
        /\ state[r].generated_task.is_fallback
        /\ Mentions(state[r].help, {"KISS"})
        /\ Mentions(state[r].help, {"bleeding"})
        /\ state[r].urgency_type = "high"
        /\ state[r].nearby_resources /= <<>>
        /\ state[r].generated_task.roles = <<"vol">>
        /\ state[r].generated_task.description = VerificationDescription

\* The help text holds a group-signal keyword and a medical-signal keyword.
MassAndMedical(help) ==
    /\ ContainsAny(LowerText(help), mass_keywords)
    /\ ContainsAny(LowerText(help), medical_keywords)

\* C12 as stated: every fallback task for a help text with a group-signal
\* keyword and a medical-signal keyword has the roles vol and fr.
C12_MassMedicalBothRoles ==
    \A r \in Runs :
        /\ pc[r] = "list_tasks"
        /\ state[r].generated_task.is_fallback
        /\ MassAndMedical(state[r].help)
        => Range(state[r].generated_task.roles) = {"vol", "fr"}

\* C12 amended: the same for the help texts that hold no inappropriate
\* keyword; a text that holds one gets the role vol alone.
C12_MassMedicalBothRolesUnlessInappropriate ==
    \A r \in Runs :
        /\ pc[r] = "list_tasks"
        /\ state[r].generated_task.is_fallback
        /\ MassAndMedical(state[r].help)
        => IF Mentions(state[r].help, {"KISS", "prank"})
           THEN state[r].generated_task.roles = <<"vol">>
           ELSE state[r].generated_task.roles = <<"vol", "fr">>

\* The fallback task of the text "many people bleeding" with urgency low.
C12_Witness ==
    \E r \in Runs :
        /\ pc[r] = "list_tasks"
        /\ state[r].generated_task.is_fallback
        /\ state[r].help = <<"many", "people", "bleeding">>
        /\ state[r].urgency_type = "low"
        /\ state[r].generated_task.roles = <<"vol", "fr">>

\* The positions of a run past generate_task.
PastGenerate ==
    {"list_tasks", "delete_tasks", "write_task", "delete_request", "write_request", "done"}

\* The answers the language-model path can use: the invocation returned, the
\* text is one JSON object, bare or between code fences, and its description
\* is neither missing nor blank.
ValidAnswer(response) ==
    /\ response.ok
    /\ \E o \in AnswerObjects :
          /\ "description" \in DOMAIN o
          /\ o.description \notin {"", "  "}
          /\ response.content \in { <<JsonObject(o)>>,
                                     <<FenceJson, JsonObject(o), Fence>>,
                                     <<Fence, JsonObject(o), Fence>> }

\* C13: the generated task has is_fallback true exactly when the try block
\* raised; on every response the node can meet, is_fallback is false exactly
\* for the valid answers; every generated task has first_Task false and
\* status pending.
C13_FallbackFlagMarksTheClassifier ==
    \A r \in Runs :
        /\ pc[r] \in PastGenerate =>
              /\ state[r].generated_task.is_fallback = ("gemini" \in faults[r])
              /\ state[r].generated_task.first_Task = FALSE
              /\ state[r].generated_task.status = "pending"
        /\ pc[r] = "generate_task" =>
              \A response \in Responses :
                  LET out == generate_emergency_task(state[r], response, Uuid4(r))
                  IN  /\ ~out.raised
                      /\ out.state.generated_task.is_fallback = ~ValidAnswer(response)
                      /\ out.state.generated_task.first_Task = FALSE
                      /\ out.state.generated_task.status = "pending"

\* A returned run whose task is the model's, and is not marked as fallback.
C13_Witness ==
    \E r \in Runs :
        /\ pc[r] = "done"
        /\ "gemini" \notin faults[r]
        /\ ~state[r].generated_task.is_fallback
        /\ state[r].generated_task.description = <<"Deliver food supplies">>
        /\ state[r].generated_task.status = "pending"
        /\ ~state[r].generated_task.first_Task

\* The stages in the order of the claim.
StageOrder ==
    <<"fetch_disaster", "fetch_resources", "generate_task", "save_task", "save_request">>

\* The stage a position of a run belongs to.
StageOf(position) ==
    CASE position \in {"list_tasks", "delete_tasks", "write_task"} -> "save_task"
      [] position \in {"delete_request", "write_request"} -> "save_request"
      [] OTHER -> position

\* Some step of run r is possible.
CanStep(r) ==
    \/ \E got \in DisasterResults : ENABLED FetchDisaster(r, got)
    \/ \E listing \in PipelineListings : ENABLED FetchResources(r, listing)
    \/ \E response \in Responses : ENABLED GenerateTask(r, response)
    \/ ENABLED ListTasks(r)
    \/ ENABLED DeleteTask(r)
    \/ ENABLED WriteTask(r)
    \/ ENABLED DeleteRequest(r)
    \/ ENABLED WriteRequest(r)

\* C14: the stages a run has entered are the first stages of the order, each
\* once; a run in progress stands in the last stage it entered and can take
\* a step; a run has ended done after all five stages, or raised in
\* fetch_disaster.
C14_StagesInOrder ==
    \A r \in Runs :
        /\ Len(visited[r]) <= Len(StageOrder)
        /\ visited[r] = SubSeq(StageOrder, 1, Len(visited[r]))
        /\ pc[r] = "idle" <=> visited[r] = <<>>
        /\ pc[r] = "done" => visited[r] = StageOrder
        /\ pc[r] = "raised" => visited[r] = <<"fetch_disaster">>
        /\ pc[r] \notin {"idle", "done", "raised"} =>
              /\ StageOf(pc[r]) = visited[r][Len(visited[r])]
              /\ CanStep(r)

\* A run has returned after entering the five stages in order, with ranked
\* resources and no failed call.
C14_Witness ==
    \E r \in Runs :
        /\ pc[r] = "done"
        /\ visited[r] = StageOrder
        /\ faults[r] = {}
        /\ state[r].nearby_resources /= <<>>

\* The positions of a run past save_task.
PastSaveTask == {"delete_request", "write_request", "done"}

\* The document of the task run r generated is in the store.
OwnTaskStored(r) == HasDocument(tasks, state[r].generated_task.task_id)

\* C15, for the store the run started on (every stored task that no run
\* wrote is one of its tasks): no run raises in save_task; in the loop, a listed
\* task the loop has passed and that is still stored had its delete call
\* raise, and the loop or the write can go on; past the stage, with the
\* listing succeeded every task of the pair that was to be deleted is deleted
\* or had its own delete call raise, with the listing failed no task is
\* deleted, and in every case the new task is stored unless its write raised.
C15_TaskPersistingBestEffort ==
    \A r \in Runs :
        \E store \in InitialStores :
            LET listed == list_tasks_by_user_and_disaster(store.tasks,
                              state[r].user_id, state[r].disaster_id)
            IN
            /\ {task \in tasks : task.id \notin {Uuid4(q) : q \in Runs}} \subseteq store.tasks
            /\ pc[r] = "raised" => "save_task" \notin Range(visited[r])
            /\ pc[r] = "delete_tasks" =>
                  /\ "list_tasks" \notin faults[r]
                  /\ existing_tasks[r] \subseteq listed
                  /\ \A task \in listed \ existing_tasks[r] :
                        ShouldDelete(task) =>
                            \/ task \notin tasks
                            \/ DeleteFault(task.id) \in faults[r]
                  /\ ENABLED (DeleteTask(r) \/ WriteTask(r))
            /\ pc[r] = "write_task" =>
                  /\ "list_tasks" \in faults[r]
                  /\ tasks = store.tasks
                  /\ ENABLED WriteTask(r)
            /\ pc[r] \in PastSaveTask =>
                  /\ "save_task" \notin faults[r] => OwnTaskStored(r)
                  /\ "list_tasks" \in faults[r] =>
                        /\ store.tasks \subseteq tasks
                        /\ "delete_task" \notin faults[r]
                  /\ "list_tasks" \notin faults[r] =>
                        \A task \in listed :
                            IF ShouldDelete(task)
                            THEN task \in tasks <=> DeleteFault(task.id) \in faults[r]
                            ELSE task \in tasks

\* Past the stage: of the two listed tasks that were to be deleted, the
\* delete of one raised and the other is deleted; the seed task and the new
\* task are stored.
C15_Witness ==
    \E r \in Runs :
        /\ pc[r] \in PastSaveTask
        /\ faults[r] = {"delete_task", DeleteFault(102)}
        /\ OldTask \in tasks
        /\ LegacyTask \notin tasks
        /\ SeedTask \in tasks
        /\ OwnTaskStored(r)

\* The coordination hint naming a resource.
Hint(name) == <<"Coordinate with", name, "for assistance.">>

\* The hint for a ranked resource: by its name, or by the words the code
\* puts for a resource that has no name.
HintFor(resource) ==
    IF "name" \in DOMAIN resource THEN Hint(resource.name) ELSE Hint("nearby resource")

\* The list ends with the given entries, after at least one other entry.
EndsWith(list, suffix) ==
    /\ Len(list) > Len(suffix)
    /\ SubSeq(list, Len(list) - Len(suffix) + 1, Len(list)) = suffix

\* The ranked resource no other ranked resource is nearer than.
IsNearest(resource, ranked) ==
    \A i \in 1..Len(ranked) : resource.distance <= ranked[i].distance

\* C16 as stated: every fallback task of a run with ranked resources has a
\* description that ends with the hint naming the nearest ranked resource.
C16_HintOnEveryOutcome ==
    \A r \in Runs :
        /\ pc[r] = "list_tasks"
        /\ state[r].generated_task.is_fallback
        /\ state[r].nearby_resources /= <<>>
        => \E i \in 1..Len(state[r].nearby_resources) :
              /\ IsNearest(state[r].nearby_resources[i], state[r].nearby_resources)
              /\ "name" \in DOMAIN state[r].nearby_resources[i]
              /\ EndsWith(state[r].generated_task.description,
                          Hint(state[r].nearby_resources[i].name))

\* C16 amended: the same for every outcome but the inappropriate one, whose
\* description is the verification text with no hint; a nearest resource
\* that has no name is named by the words nearby resource.
C16_HintUnlessInappropriate ==
    \A r \in Runs :
        /\ pc[r] = "list_tasks"
        /\ state[r].generated_task.is_fallback
        /\ state[r].nearby_resources /= <<>>
        => IF Mentions(state[r].help, {"KISS", "prank"})
           THEN state[r].generated_task.description = VerificationDescription
           ELSE \E i \in 1..Len(state[r].nearby_resources) :
                   /\ IsNearest(state[r].nearby_resources[i], state[r].nearby_resources)
                   /\ EndsWith(state[r].generated_task.description,
                               HintFor(state[r].nearby_resources[i]))

\* The fallback task of a text with no keyword: its description ends with
\* the hint naming the shelter, the nearer of the two ranked resources.
C16_Witness ==
    \E r \in Runs :
        /\ pc[r] = "list_tasks"
        /\ state[r].generated_task.is_fallback
        /\ state[r].help = <<"please">>
        /\ state[r].urgency_type = "low"
        /\ Len(state[r].nearby_resources) = 2
        /\ state[r].nearby_resources[2].name = "Depot"
        /\ EndsWith(state[r].generated_task.description, Hint("Shelter"))

\* The roles the claim gives for the roles value of an answer.
RolesFor(o) ==
    IF "roles" \notin DOMAIN o THEN {"vol"}
    ELSE CASE o.roles = "both" -> {"vol", "fr"}
           [] o.roles = "vol" -> {"vol"}
           [] o.roles = "fr" -> {"fr"}
           [] OTHER -> {"vol"}

\* The description of the answer is missing, empty or only whitespace.
Blank(o) == "description" \notin DOMAIN o \/ o.description \in {"", "  "}

\* The description of the answer without the whitespace around it.
Trimmed(o) ==
    IF o.description = " Deliver food supplies " THEN "Deliver food supplies"
    ELSE o.description

\* C17: on every JSON object the model may answer with, bare or between code
\* fences, the node returns, for a blank description, the task it returns
\* when the invocation fails (the fallback task), and otherwise a task that
\* is not a fallback, with the trimmed description and the roles the roles
\* value stands for.
C17_ModelRolesAndBlankDescription ==
    \A r \in Runs :
        pc[r] = "generate_task" =>
            \A o \in AnswerObjects :
                \A content \in { <<JsonObject(o)>>, <<FenceJson, JsonObject(o), Fence>>,
                                  <<Fence, JsonObject(o), Fence>> } :
                    LET out == generate_emergency_task(state[r], Answer(content), Uuid4(r))
                        failed == generate_emergency_task(state[r], InvokeFails, Uuid4(r))
                        task == out.state.generated_task
                    IN  /\ ~out.raised
                        /\ IF Blank(o)
                           THEN /\ out = failed
                                /\ task.is_fallback
                           ELSE /\ ~task.is_fallback
                                /\ task.description = <<Trimmed(o)>>
                                /\ Range(task.roles) = RolesFor(o)
                                /\ Len(task.roles) = Cardinality(RolesFor(o))

\* A run whose task comes from an answer with the roles value both: it is
\* no fallback and has the two roles.
C17_Witness ==
    \E r \in Runs :
        /\ pc[r] = "list_tasks"
        /\ "gemini" \notin faults[r]
        /\ ~state[r].generated_task.is_fallback
        /\ state[r].generated_task.roles = <<"vol", "fr">>

\* The document holds a latitude and a longitude value, zero included.
BothPresent(doc) ==
    /\ "latitude" \in DOMAIN doc /\ doc.latitude /= None
    /\ "longitude" \in DOMAIN doc /\ doc.longitude /= None

\* The distance of a document to the requester of the state, as it compares.
DistanceTo(st, doc) ==
    Distance(Float(st.latitude), Float(st.longitude),
             Float(doc.latitude), Float(doc.longitude))

\* The smaller of two numbers.
Min(a, b) == IF a < b THEN a ELSE b

\* C18: on every listing of at most MaxDocs documents, the ranked list holds
\* min(5, n) of the n documents with both coordinates present (zero
\* included), and no such document left out is nearer than a ranked one.
C18_EveryPlacedResourceRanked ==
    \A r \in Runs :
        pc[r] = "fetch_resources" =>
            \A n \in 0..MaxDocs : \A shapes \in [1..n -> ResourceShapes] :
                LET documents == Documents(shapes)
                    out == fetch_nearby_resources(state[r], Listing(documents))
                    ranked == out.state.nearby_resources
                    present == {i \in 1..n : BothPresent(documents[i])}
                    chosen == {ranked[k].resource_id : k \in 1..Len(ranked)}
                IN  /\ Len(ranked) = Min(5, Cardinality(present))
                    /\ Cardinality(chosen) = Len(ranked)
                    /\ chosen \subseteq present
                    /\ \A i \in present \ chosen : \A j \in chosen :
                          DistanceTo(state[r], documents[j])
                              <= DistanceTo(state[r], documents[i])

\* Run r is between its call and its return.
InProgress(r) == pc[r] \notin {"idle", "done", "raised"}

\* Run r returns in this step, with no other run of its user in progress.
Completes(r) ==
    /\ InProgress(r)
    /\ pc'[r] = "done"
    /\ \A q \in Runs \ {r} : InProgress(q) => state[q].user_id /= state[r].user_id

\* The only record of the user of run r after the step is stored under the
\* user id and is the record the returned state of r holds.
RecordIsOwn(r) ==
    {record \in requests' : record.userId = state[r].user_id \/ record.id = state[r].user_id}
        = {Merge(state'[r].user_request_data, [id |-> state[r].user_id])}

RecordsNameStoredTasks ==
    \A record \in requests : HasDocument(tasks, record.task_id)

\* No task write and no request write of a returned run raised.
WritesSucceeded ==
    \A r \in Runs : pc[r] = "done" => faults[r] \cap {"save_task", "save_request"} = {}

====
